---- MODULE Spec2Model ----
(***************************************************************************)
(* kaseev::BST< Key, Value, Compare >: an AVL-balanced binary search tree  *)
(* with shared_ptr child links and weak_ptr parent links                   *)
(* (src/kaseev.andrey/S4/BinarySearchTree.hpp).                            *)
(*                                                                         *)
(* The node graph is a heap: a function from node addresses to node        *)
(* records.  A container is a root address and a stored nodeCount.  Every  *)
(* private member function is an operator that takes the heap and returns  *)
(* the heap it leaves behind together with its return value; every public  *)
(* member function is an action.                                           *)
(***************************************************************************)
EXTENDS Integers, Sequences, FiniteSets, TLC

\* ------------------------------------------------------------------ bounds
MaxKey == 5
MaxVal == 2
MaxNodes == 6
MaxCount == 5
\* keys, and size() up to which a container takes a new key, when two
\* containers are in play
PairMaxKey == 3
PairMaxCount == 2
\* the same two, when contents are moved between the containers
MoveMaxKey == 2
MoveMaxCount == 3

Keys == 1..MaxKey
Vals == 1..MaxVal
NodeIds == 1..MaxNodes
PairKeys == 1..PairMaxKey
MoveKeys == 1..MoveMaxKey

\* nullptr, and the end() iterator (an Iterator holding no node)
NULL == 0
\* Value(): the value-initialised mapped value
DefaultValue == 0

Containers == {"a", "b"}

VARIABLES heap, root, nodeCount, exists, last

vars == <<heap, root, nodeCount, exists, last>>

\* ------------------------------------------------------------------ nodes
\* an address that holds no node
FreeNode ==
  [used |-> FALSE, key |-> 0, val |-> 0, left |-> NULL, right |-> NULL,
   parent |-> NULL, height |-> 0]

\* Node(key, value, parent): the constructor is declared at line 52 and defined
\* outside the source at hand; a fresh node is a leaf of height 1
Node(key, value, parent) ==
  [used |-> TRUE, key |-> key, val |-> value, left |-> NULL, right |-> NULL,
   parent |-> parent, height |-> 1]

\* a comparison that also holds of equal keys
compNonStrict(a, b) == a <= b

\* Compare comp: the strict order on the keys
comp(a, b) == a < b

Max(a, b) == IF a >= b THEN a ELSE b

\* make_shared< Node >: the address of a fresh node, the lowest unused one
NewId(h) == CHOOSE i \in NodeIds : ~h[i].used /\ \A j \in NodeIds : ~h[j].used => i <= j

HasFree(h) == \E i \in NodeIds : ~h[i].used

height(h, n) == IF n # NULL THEN h[n].height ELSE 0

balanceFactor(h, n) ==
  IF n # NULL THEN height(h, h[n].left) - height(h, h[n].right) ELSE 0

updateHeight(h, n) ==
  IF n # NULL
  THEN [h EXCEPT ![n].height = 1 + Max(height(h, h[n].left), height(h, h[n].right))]
  ELSE h

\* weak_ptr::lock(): the node a parent link designates, nullptr once it is gone
lock(h, p) == IF p # NULL /\ h[p].used THEN p ELSE NULL

\* n->parent = p, when there is a node n
setParent(h, n, p) == IF n # NULL THEN [h EXCEPT ![n].parent = p] ELSE h

\* lines 309 and 326: the promoted node n takes the parent that the lock() of the
\* parent link of its child below yields
lockParent(h, n, below) == [h EXCEPT ![n].parent = lock(h, h[below].parent)]

\* rotateRight(y), x being y->left: x->right goes to y->left and is given the
\* parent y, y goes to x->right and is given the parent x, the heights of y
\* and then of x are recomputed, x->parent is read back from y
rotateRightAt(h, y, x) ==
  [h |-> lockParent(
           updateHeight(
             updateHeight(
               setParent(
                 setParent([h EXCEPT ![y].left = h[x].right, ![x].right = y],
                           h[x].right, y),
                 y, x),
               y),
             x),
           x, y),
   r |-> x]

rotateRight(h, y) == rotateRightAt(h, y, h[y].left)

\* rotateLeft(x), y being x->right
rotateLeftAt(h, x, y) ==
  [h |-> lockParent(
           updateHeight(
             updateHeight(
               setParent(
                 setParent([h EXCEPT ![x].right = h[y].left, ![y].left = x],
                           h[y].left, x),
                 x, y),
               x),
             y),
           y, x),
   r |-> y]

rotateLeft(h, x) == rotateLeftAt(h, x, h[x].right)

\* n->left = s and n->right = s, s being what a call returned: the heap it
\* left and the node it returned
attachLeft(s, n) == [s.h EXCEPT ![n].left = s.r]

attachRight(s, n) == [s.h EXCEPT ![n].right = s.r]

\* lines 340 and 348: newRoot->parent.reset()
resetParent(s) == [h |-> [s.h EXCEPT ![s.r].parent = NULL], r |-> s.r]

\* balance after its updateHeight, without the inner rotation of the
\* left-right and right-left cases
balanceUpdatedSingle(h, n) ==
  IF balanceFactor(h, n) > 1 THEN resetParent(rotateRight(h, n))
  ELSE IF balanceFactor(h, n) < -1 THEN resetParent(rotateLeft(h, n))
  ELSE [h |-> h, r |-> n]

balanceSingle(h, n) == balanceUpdatedSingle(updateHeight(h, n), n)

\* balance(n) after its updateHeight(n), lines 335-351
balanceUpdated(h, n) ==
  IF balanceFactor(h, n) > 1 THEN
    resetParent(rotateRight(IF balanceFactor(h, h[n].left) < 0
                            THEN attachLeft(rotateLeft(h, h[n].left), n)
                            ELSE h,
                            n))
  ELSE IF balanceFactor(h, n) < -1 THEN
    resetParent(rotateLeft(IF balanceFactor(h, h[n].right) > 0
                           THEN attachRight(rotateRight(h, h[n].right), n)
                           ELSE h,
                           n))
  ELSE [h |-> h, r |-> n]

balance(h, n) == balanceUpdated(updateHeight(h, n), n)

\* minValueNode walking the right links
RECURSIVE maxValueNode(_, _)
maxValueNode(h, node) ==
  IF h[node].right # NULL THEN maxValueNode(h, h[node].right) ELSE node

RECURSIVE minValueNode(_, _)
minValueNode(h, node) ==
  IF h[node].left # NULL THEN minValueNode(h, h[node].left) ELSE node

\* the private find(Node *, key)
RECURSIVE findNode(_, _, _)
findNode(h, node, key) ==
  IF node = NULL THEN NULL
  ELSE IF comp(key, h[node].key) THEN findNode(h, h[node].left, key)
  ELSE IF comp(h[node].key, key) THEN findNode(h, h[node].right, key)
  ELSE node

\* insert that leaves the value of an existing key as it is
assignValueSkip(h, node, value) == h

\* erase that copies the key of the successor and not its value
copySuccessorKeyOnly(h, node, min) == [h EXCEPT ![node].key = h[min].key]

\* line 367: the value of an existing key is overwritten in place
assignValue(h, node, value) == [h EXCEPT ![node].val = value]

\* lines 387-388: the node takes the value and the key of its successor min
copySuccessor(h, node, min) ==
  [h EXCEPT ![node].val = h[min].val, ![node].key = h[min].key]

\* what insert returns: the subtree root b.r of the heap b.h, nodeCount being cnt
counted(b, cnt) == [h |-> b.h, cnt |-> cnt, r |-> b.r]

\* lines 363 and 369: node->left = s, return balance(node)
insertedLeft(s, node) == counted(balance(attachLeft(s, node), node), s.cnt)

\* lines 365 and 369: node->right = s, return balance(node)
insertedRight(s, node) == counted(balance(attachRight(s, node), node), s.cnt)

\* the private insert(node, key, value, parent); cnt is the member nodeCount
RECURSIVE insert(_, _, _, _, _, _)
insert(h, cnt, node, key, value, parent) ==
  IF node = NULL THEN
    [h |-> [h EXCEPT ![NewId(h)] = Node(key, value, parent)],
     cnt |-> cnt + 1, r |-> NewId(h)]
  ELSE IF comp(key, h[node].key) THEN
    insertedLeft(insert(h, cnt, h[node].left, key, value, node), node)
  ELSE IF comp(h[node].key, key) THEN
    insertedRight(insert(h, cnt, h[node].right, key, value, node), node)
  ELSE
    counted(balance(assignValue(h, node, value), node), cnt)

RECURSIVE erase(_, _, _)
\* lines 386-389: the node that holds key has two children and min is the
\* leftmost node of the right one; the key passed on is min's own
eraseSuccessor(h, node, min) ==
  attachRight(erase([copySuccessor(h, node, min) EXCEPT ![node].right = NULL],
                    h[node].right, h[min].key),
              node)

\* the private erase(node, key)
erase(h, node, key) ==
  IF node = NULL THEN [h |-> h, r |-> NULL]
  ELSE IF comp(key, h[node].key) THEN
    balance(attachLeft(erase([h EXCEPT ![node].left = NULL], h[node].left, key), node),
            node)
  ELSE IF comp(h[node].key, key) THEN
    balance(attachRight(erase([h EXCEPT ![node].right = NULL], h[node].right, key), node),
            node)
  ELSE IF h[node].left = NULL THEN
    [h |-> [h EXCEPT ![node].right = NULL], r |-> h[node].right]
  ELSE IF h[node].right = NULL THEN
    [h |-> [h EXCEPT ![node].left = NULL], r |-> h[node].left]
  ELSE
    balance(eraseSuccessor(h, node, minValueNode(h, h[node].right)), node)

RECURSIVE clone(_, _)
\* lines 427-430: newNode is the fresh node for node; its left and then its
\* right subtree are cloned and attached
cloneInto(h, node, newNode) ==
  [h |-> attachRight(
           clone(attachLeft(
                   clone([h EXCEPT ![newNode] = Node(h[node].key, h[node].val, NULL)],
                         h[node].left),
                   newNode),
                 h[node].right),
           newNode),
   r |-> newNode]

\* clone(node): a fresh node per node, built by Node(key, value)
clone(h, node) ==
  IF node = NULL THEN [h |-> h, r |-> NULL] ELSE cloneInto(h, node, NewId(h))

\* ------------------------------------------------------------------ ownership
\* the nodes a shared_ptr owns, directly or through child links
RECURSIVE Owned(_, _)
Owned(h, n) ==
  IF n = NULL THEN {} ELSE {n} \cup Owned(h, h[n].left) \cup Owned(h, h[n].right)

\* the nodes a shared_ptr owns, in the order a walk from it meets them
RECURSIVE Preorder(_, _)
Preorder(h, n) ==
  IF n = NULL THEN <<>>
  ELSE <<n>> \o Preorder(h, h[n].left) \o Preorder(h, h[n].right)

\* a sequence, and x after it unless it holds x
AddNew(q, x) == IF \E i \in 1..Len(q) : q[i] = x THEN q ELSE Append(q, x)

\* a sequence without the repeats of its elements
RECURSIVE Dedup(_)
Dedup(q) ==
  IF q = <<>> THEN <<>> ELSE AddNew(Dedup(SubSeq(q, 1, Len(q) - 1)), q[Len(q)])

\* the place of node n in the sequence live, NULL when it is not there
PlaceIn(live, n) ==
  IF n = NULL \/ ~\E i \in 1..Len(live) : live[i] = n THEN NULL
  ELSE CHOOSE i \in 1..Len(live) : live[i] = n

\* the heap and the roots with the nodes of live, and only them, kept, each
\* at the address that is its place in live
Renumber(h, rt, live) ==
  [h  |-> [i \in NodeIds |->
             IF i <= Len(live)
             THEN [h[live[i]] EXCEPT !.left = PlaceIn(live, @),
                                     !.right = PlaceIn(live, @),
                                     !.parent = PlaceIn(live, @)]
             ELSE FreeNode],
   rt |-> [c \in Containers |-> PlaceIn(live, rt[c])]]

\* shared_ptr release: a node no root owns any more is destroyed, and every
\* weak_ptr that designated it expires.  Addresses are only ever compared with
\* each other, so the heap is kept up to their renaming: the surviving nodes
\* are numbered in the order a walk from the roots meets them
Release(h, rt) ==
  Renumber(h, rt, Dedup(Preorder(h, rt["a"]) \o Preorder(h, rt["b"])))

\* ------------------------------------------------------------------ iteration
\* Iterator::operator++ (the class is declared at line 22 and defined outside
\* the source at hand): the leftmost node of the right subtree, else up the
\* parent links to the first node entered from its left child, else end
RECURSIVE climb(_, _, _)
climbTo(h, n, p, fuel) ==
  IF p = NULL THEN NULL
  ELSE IF h[p].left = n THEN p
  ELSE IF fuel = 0 THEN NULL
  ELSE climb(h, p, fuel - 1)

climb(h, n, fuel) == climbTo(h, n, lock(h, h[n].parent), fuel)

next(h, n) ==
  IF h[n].right # NULL THEN minValueNode(h, h[n].right) ELSE climb(h, n, MaxNodes)

begin(h, r) == IF r = NULL THEN NULL ELSE minValueNode(h, r)

end == NULL

\* the public find(key): the position of key, or end()
RECURSIVE find(_, _, _)
find(h, current, key) ==
  IF current = NULL THEN end
  ELSE IF comp(key, h[current].key) THEN find(h, h[current].left, key)
  ELSE IF comp(h[current].key, key) THEN find(h, h[current].right, key)
  ELSE current

count(h, r, key) == IF find(h, r, key) # end THEN 1 ELSE 0

\* the keys met stepping from position n to end(), at most fuel steps
RECURSIVE walk(_, _, _)
walk(h, n, fuel) ==
  IF n = end \/ fuel = 0 THEN <<>>
  ELSE <<h[n].key>> \o walk(h, next(h, n), fuel - 1)

\* the first loop of equalRange: skip the positions whose key is before key
RECURSIVE skipLess(_, _, _, _)
skipLess(h, it, key, fuel) ==
  IF it # end /\ comp(h[it].key, key) /\ fuel > 0
  THEN skipLess(h, next(h, it), key, fuel - 1)
  ELSE it

\* the second loop of equalRange: skip the positions whose key is not after key
RECURSIVE skipNotGreater(_, _, _, _)
skipNotGreater(h, it, key, fuel) ==
  IF it # end /\ ~comp(key, h[it].key) /\ fuel > 0
  THEN skipNotGreater(h, next(h, it), key, fuel - 1)
  ELSE it

\* lines 251-255 of equalRange: the pair from lower on
rangeFrom(h, lower, key) == <<lower, skipNotGreater(h, lower, key, MaxNodes + 1)>>

\* equalRange(key) on a container that has a root
equalRange(h, r, key) ==
  rangeFrom(h, skipLess(h, minValueNode(h, r), key, MaxNodes + 1), key)

\* the number of children of node n, -1 when there is no node
kidsAt(h, n) ==
  IF n = NULL THEN -1
  ELSE (IF h[n].left # NULL THEN 1 ELSE 0) + (IF h[n].right # NULL THEN 1 ELSE 0)

\* the number of children of the node that holds key, -1 when no node does
kidsOf(h, r, key) == kidsAt(h, findNode(h, r, key))

\* ------------------------------------------------------------------ actions
\* the last public call: its name, its receiver c, its arguments (key, val,
\* the other container src), what it returned (val, lo, hi, err), how many
\* children the node of key had before it (kids) and, for a copy or a move,
\* how many nodes src owned before it (n)
NoLast ==
  [op |-> "none", c |-> "a", src |-> "a", key |-> 0, val |-> 0, err |-> "none",
   lo |-> NULL, hi |-> NULL, kids |-> -1, n |-> 0]

Init ==
  /\ heap = [i \in NodeIds |-> FreeNode]
  /\ root = [c \in Containers |-> NULL]
  /\ nodeCount = [c \in Containers |-> 0]
  /\ exists = [c \in Containers |-> c = "a"]
  /\ last = NoLast

\* the heap and the roots once what a call dropped is released
Store(st) ==
  /\ root' = st.rt
  /\ heap' = st.h

\* root = s, s being what a private call returned on heap s.h
SetRoot(c, s) == Store(Release(s.h, [root EXCEPT ![c] = s.r]))

\* root = s, with the nodeCount that the private insert left
SetRootAndCount(c, s) ==
  /\ SetRoot(c, s)
  /\ nodeCount' = [nodeCount EXCEPT ![c] = s.cnt]

\* the nodes still to be had from the allocator
FreeCount(h) == Cardinality({i \in NodeIds : ~h[i].used})

\* push(key, value), and insert(pair), which forwards to it
Push(c, key, value) ==
  /\ exists[c]
  /\ nodeCount[c] < MaxCount
  /\ HasFree(heap)
  /\ SetRootAndCount(c, insert(heap, nodeCount[c], root[c], key, value, NULL))
  /\ last' = [NoLast EXCEPT !.op = "push", !.c = c, !.key = key, !.val = value,
                            !.kids = kidsOf(heap, root[c], key)]
  /\ UNCHANGED exists

\* a const operator[] that returns a default value for a key it does not find
valueAtDefault(h, node) ==
  IF node = NULL THEN [err |-> "none", val |-> DefaultValue]
  ELSE [err |-> "none", val |-> h[node].val]

\* the const operator[](key) with node found: the value, or the error thrown
valueAt(h, node) ==
  IF node = NULL THEN [err |-> "KeyNotFound", val |-> 0]
  ELSE [err |-> "none", val |-> h[node].val]

\* the const operator[](key)
opIndexConst(h, r, key) == valueAt(h, findNode(h, r, key))

OpIndexRead(c, key) ==
  /\ exists[c]
  /\ last' = [NoLast EXCEPT !.op = "read", !.c = c, !.key = key,
                            !.err = opIndexConst(heap, root[c], key).err,
                            !.val = opIndexConst(heap, root[c], key).val,
                            !.kids = kidsOf(heap, root[c], key)]
  /\ UNCHANGED <<heap, root, nodeCount, exists>>

\* what the non-const operator[](key) comes to with node found.  With no node,
\* line 154 calls insert(std::move(root), key, Value()), and BST declares no
\* insert of three arguments (lines 40 and 59; the parent parameter has no
\* default): the call is ill-formed, a program that uses the operator is not
\* built, and no entry is made.  With a node, line 157 returns its value
writeAt(h, node) ==
  IF node = NULL THEN [err |-> "NoMatchingInsert", val |-> 0]
  ELSE [err |-> "none", val |-> h[node].val]

\* the non-const operator[](key)
OpIndexWrite(c, key) ==
  /\ exists[c]
  /\ last' = [NoLast EXCEPT !.op = "write", !.c = c, !.key = key,
                            !.err = writeAt(heap, findNode(heap, root[c], key)).err,
                            !.val = writeAt(heap, findNode(heap, root[c], key)).val,
                            !.kids = kidsOf(heap, root[c], key)]
  /\ UNCHANGED <<heap, root, nodeCount, exists>>

\* drop(key), and erase(key), which forwards to it
Drop(c, key) ==
  /\ exists[c]
  /\ SetRoot(c, erase(heap, root[c], key))
  /\ last' = [NoLast EXCEPT !.op = "drop", !.c = c, !.key = key,
                            !.kids = kidsOf(heap, root[c], key)]
  /\ UNCHANGED <<nodeCount, exists>>

Clear(c) ==
  /\ exists[c]
  /\ Store(Release(heap, [root EXCEPT ![c] = NULL]))
  /\ nodeCount' = [nodeCount EXCEPT ![c] = 0]
  /\ last' = [NoLast EXCEPT !.op = "clear", !.c = c]
  /\ UNCHANGED exists

\* equalRange(key); on a container with no root line 243 reads through a null
\* pointer, and what the call returns then is not determined
EqualRange(c, key) ==
  /\ exists[c]
  /\ \/ /\ root[c] # NULL
        /\ last' = [NoLast EXCEPT !.op = "equalRange", !.c = c, !.key = key,
                                  !.lo = equalRange(heap, root[c], key)[1],
                                  !.hi = equalRange(heap, root[c], key)[2],
                                  !.kids = kidsOf(heap, root[c], key)]
     \/ /\ root[c] = NULL
        /\ \E lo \in NodeIds \cup {NULL}, hi \in NodeIds \cup {NULL} :
             last' = [NoLast EXCEPT !.op = "equalRange", !.c = c, !.key = key,
                                    !.lo = lo, !.hi = hi, !.err = "NullDeref"]
  /\ UNCHANGED <<heap, root, nodeCount, exists>>

\* BST()
Construct(c) ==
  /\ ~exists[c]
  /\ exists' = [exists EXCEPT ![c] = TRUE]
  /\ root' = [root EXCEPT ![c] = NULL]
  /\ nodeCount' = [nodeCount EXCEPT ![c] = 0]
  /\ last' = [NoLast EXCEPT !.op = "construct", !.c = c]
  /\ UNCHANGED heap

\* ~BST(): clear(), and the object is gone
Destroy(c) ==
  /\ exists[c]
  /\ Store(Release(heap, [root EXCEPT ![c] = NULL]))
  /\ nodeCount' = [nodeCount EXCEPT ![c] = 0]
  /\ exists' = [exists EXCEPT ![c] = FALSE]
  /\ last' = [NoLast EXCEPT !.op = "destroy", !.c = c]

\* a copy constructor that copies the root pointer and not the nodes
CopyConstructShallow(c, other) ==
  /\ ~exists[c] /\ exists[other]
  /\ root' = [root EXCEPT ![c] = root[other]]
  /\ nodeCount' = [nodeCount EXCEPT ![c] = nodeCount[other]]
  /\ exists' = [exists EXCEPT ![c] = TRUE]
  /\ last' = [NoLast EXCEPT !.op = "copyConstruct", !.c = c, !.src = other,
                            !.n = Cardinality(Owned(heap, root[other]))]
  /\ UNCHANGED heap

\* BST(const BST &other)
CopyConstruct(c, other) ==
  /\ ~exists[c] /\ exists[other]
  /\ FreeCount(heap) >= Cardinality(Owned(heap, root[other]))
  /\ SetRoot(c, clone(heap, root[other]))
  /\ nodeCount' = [nodeCount EXCEPT ![c] = nodeCount[other]]
  /\ exists' = [exists EXCEPT ![c] = TRUE]
  /\ last' = [NoLast EXCEPT !.op = "copyConstruct", !.c = c, !.src = other,
                            !.n = Cardinality(Owned(heap, root[other]))]

\* operator=(const BST &other)
CopyAssign(c, other) ==
  /\ exists[c] /\ exists[other]
  /\ FreeCount(heap) >= Cardinality(Owned(heap, root[other]))
  /\ IF c = other
     THEN UNCHANGED <<heap, root, nodeCount>>
     ELSE /\ SetRoot(c, clone(heap, root[other]))
          /\ nodeCount' = [nodeCount EXCEPT ![c] = nodeCount[other]]
  /\ last' = [NoLast EXCEPT !.op = "copyAssign", !.c = c, !.src = other,
                            !.n = Cardinality(Owned(heap, root[other]))]
  /\ UNCHANGED exists

\* BST(const BST &&other): other is const, so std::move(other.root) selects the
\* copying assignment of shared_ptr and both containers own the root; line 98
\* then sets other.nodeCount to zero
MoveConstruct(c, other) ==
  /\ ~exists[c] /\ exists[other]
  /\ Store(Release(heap, [root EXCEPT ![c] = root[other]]))
  /\ nodeCount' = [nodeCount EXCEPT ![c] = nodeCount[other], ![other] = 0]
  /\ exists' = [exists EXCEPT ![c] = TRUE]
  /\ last' = [NoLast EXCEPT !.op = "moveConstruct", !.c = c, !.src = other,
                            !.n = Cardinality(Owned(heap, root[other]))]

\* operator=(BST &&other)
MoveAssign(c, other) ==
  /\ exists[c] /\ exists[other]
  /\ IF c = other
     THEN UNCHANGED <<heap, root, nodeCount>>
     ELSE /\ Store(Release(heap, [root EXCEPT ![c] = root[other], ![other] = NULL]))
          /\ nodeCount' = [nodeCount EXCEPT ![c] = nodeCount[other]]
  /\ last' = [NoLast EXCEPT !.op = "moveAssign", !.c = c, !.src = other,
                            !.n = Cardinality(Owned(heap, root[other]))]
  /\ UNCHANGED exists

Next ==
  \/ \E k \in Keys, v \in Vals : Push("a", k, v)
  \/ \E k \in Keys : OpIndexWrite("a", k)
  \/ \E k \in Keys : OpIndexRead("a", k)
  \/ \E k \in Keys : Drop("a", k)
  \/ \E k \in Keys : EqualRange("a", k)
  \/ Clear("a")

Spec == Init /\ [][Next]_vars

\* the calls that change one container, with two containers in play: keys
\* drawn from K, and a new key taken only while size() is below cap
MutateWith(c, K, cap) ==
  \/ \E k \in K, v \in Vals :
       /\ nodeCount[c] < cap \/ findNode(heap, root[c], k) # NULL
       /\ Push(c, k, v)
  \/ \E k \in K : OpIndexWrite(c, k)
  \/ \E k \in K : Drop(c, k)
  \/ Clear(c)

Mutate(c) == MutateWith(c, PairKeys, PairMaxCount)

\* two containers, the second made and remade from the first by copy
NextCopy ==
  \/ \E c \in Containers : Mutate(c)
  \/ CopyConstruct("b", "a")
  \/ \E c \in Containers, other \in Containers : CopyAssign(c, other)
  \/ Destroy("b")

SpecCopy == Init /\ [][NextCopy]_vars

\* two containers, the contents moved from one to the other
NextMove ==
  \/ \E c \in Containers : MutateWith(c, MoveKeys, MoveMaxCount)
  \/ Construct("b")
  \/ MoveConstruct("b", "a")
  \/ \E c \in Containers, other \in Containers : MoveAssign(c, other)
  \/ Destroy("b")

SpecMove == Init /\ [][NextMove]_vars

\* ------------------------------------------------------------------ views
\* the keys of the nodes a root owns
KeysOf(h, r) == {h[n].key : n \in Owned(h, r)}

\* what lookup by descent from the root returns for every key (-1: not found)
MapOf(h, r) ==
  [k \in Keys |-> IF find(h, r, k) = end THEN -1 ELSE h[find(h, r, k)].val]

\* the keys of a set, ascending
RECURSIVE Sorted(_)
SortedFrom(S, m) == <<m>> \o Sorted(S \ {m})

Sorted(S) ==
  IF S = {} THEN <<>> ELSE SortedFrom(S, CHOOSE x \in S : \A y \in S : x <= y)

\* the full ascending traversal from begin() to end()
Traversal(h, r) == walk(h, begin(h, r), MaxNodes + 1)

\* the node graph a root owns, its nodes numbered in the order a walk meets them
GraphOf(h, r) == Release(h, [c \in Containers |-> IF c = "a" THEN r ELSE NULL]).h

Other(c) == IF c = "a" THEN "b" ELSE "a"

Mutations == {"push", "write", "drop", "clear"}

\* ------------------------------------------------------------------ claims
\* C1: order invariant.  After any sequence of push, operator[] write, drop
\* and clear from an empty container, every key in a node's left subtree is
\* strictly before the node's key and every key in its right subtree strictly
\* after it.
OrderInvariant ==
  \A n \in Owned(heap, root["a"]) :
    /\ \A m \in Owned(heap, heap[n].left) : comp(heap[m].key, heap[n].key)
    /\ \A m \in Owned(heap, heap[n].right) : comp(heap[n].key, heap[m].key)

\* C1 witness: a node with two children was erased and a tree of at least
\* four nodes is left
OrderWitness ==
  /\ last.op = "drop" /\ last.kids = 2
  /\ Cardinality(Owned(heap, root["a"])) >= 4

\* C2: height invariant.  Every node's stored height is 1 + max of its
\* children's stored heights (0 for an absent child) and its balance factor is
\* in -1..1.
HeightInvariant ==
  \A n \in Owned(heap, root["a"]) :
    /\ heap[n].height = 1 + Max(height(heap, heap[n].left), height(heap, heap[n].right))
    /\ balanceFactor(heap, n) \in -1..1

\* C2 witness: a present key was erased from a tree that is of height 3 after it
HeightWitness ==
  /\ last.op = "drop" /\ last.kids >= 0
  /\ height(heap, root["a"]) = 3

\* C3: count consistency.  size() equals the number of nodes the root owns.
CountConsistency ==
  nodeCount["a"] = Cardinality(Owned(heap, root["a"]))

\* C4: parent consistency.  The parent link of every node but the root
\* designates the node whose left or right link holds it; the root has none.
ParentConsistency ==
  \A n \in Owned(heap, root["a"]) :
    IF n = root["a"] THEN heap[n].parent = NULL
    ELSE /\ heap[n].parent # NULL
         /\ \/ heap[heap[n].parent].left = n
            \/ heap[heap[n].parent].right = n

\* C5: complete ascending traversal.  Stepping from begin() to end() visits
\* every stored key exactly once, in increasing order.
TraversalComplete ==
  Traversal(heap, root["a"]) = Sorted(KeysOf(heap, root["a"]))

\* C6: erase removes exactly one entry.  A drop of a present key leaves the
\* key-to-value mapping as it was but for that key, which find no longer finds.
EraseRemovesOne ==
  [][(last'.op = "drop" /\ last'.kids >= 0) =>
       /\ MapOf(heap, root["a"])[last'.key] # -1
       /\ find(heap', root'["a"], last'.key) = end
       /\ MapOf(heap', root'["a"]) = [MapOf(heap, root["a"]) EXCEPT ![last'.key] = -1]]_vars

\* C6 witness: the root of a three-node tree, which had two children, was erased
EraseWitness ==
  /\ last.op = "drop" /\ last.kids = 2
  /\ Cardinality(Owned(heap, root["a"])) = 2

\* C7: insert/read round trip.  Right after push(k, v), of an absent or a
\* present key, the const operator[](k) returns v and throws nothing.
InsertReadRoundTrip ==
  last.op = "push" =>
    opIndexConst(heap, root["a"], last.key) = [err |-> "none", val |-> last.val]

\* C7 witness: a key that was present, in a node with two children, was pushed
InsertReadWitness ==
  /\ last.op = "push" /\ last.kids = 2
  /\ opIndexConst(heap, root["a"], last.key).val = last.val

\* C8: move empties the source.  After a move from a container that held
\* n >= 1 entries, the destination holds n entries with size() = n, the source
\* has no root and size() = 0, and no node is owned by both.
MoveEmptiesSource ==
  (last.op \in {"moveConstruct", "moveAssign"} /\ last.c # last.src /\ last.n >= 1) =>
    /\ Cardinality(Owned(heap, root[last.c])) = last.n
    /\ nodeCount[last.c] = last.n
    /\ root[last.src] = NULL
    /\ nodeCount[last.src] = 0
    /\ begin(heap, root[last.src]) = end
    /\ Owned(heap, root[last.src]) \cap Owned(heap, root[last.c]) = {}

\* C9: copy independence.  With the second container made by copy, the two
\* share no node, and a push, operator[] write, drop or clear on one leaves
\* the node graph, the values and size() of the other as they were.
CopyIndependence ==
  [][/\ Owned(heap', root'["a"]) \cap Owned(heap', root'["b"]) = {}
     /\ last'.op \in Mutations =>
          /\ GraphOf(heap', root'[Other(last'.c)]) = GraphOf(heap, root[Other(last'.c)])
          /\ nodeCount'[Other(last'.c)] = nodeCount[Other(last'.c)]]_vars

\* C9 witness: a present key was erased from the copy of a populated container
CopyWitness ==
  /\ exists["b"] /\ root["a"] # NULL
  /\ last.op = "drop" /\ last.c = "b" /\ last.kids >= 0

\* C10: equalRange.  The pair returned spans exactly the entries whose key is
\* key: from the position find returns to its successor when key is present,
\* empty when it is not, and no absent node is read through.
EqualRangeSpan ==
  last.op = "equalRange" =>
    /\ last.err = "none"
    /\ IF find(heap, root["a"], last.key) # end
       THEN /\ last.lo = find(heap, root["a"], last.key)
            /\ last.hi = next(heap, last.lo)
       ELSE last.lo = last.hi

\* C11: size law.  size() equals the number of entries that a full ascending
\* traversal from begin() to end() produces.
SizeLaw ==
  nodeCount["a"] = Len(Traversal(heap, root["a"]))

\* C12: erase of an absent key is a no-op.  On any container, a drop of a key
\* that no node of it holds leaves size(), every node's children, parent link
\* and stored height, and the full traversal as they were.
EraseAbsentNoOp ==
  [][(last'.op = "drop" /\ last'.kids = -1) =>
       /\ nodeCount' = nodeCount
       /\ root' = root
       /\ heap' = heap
       /\ Traversal(heap', root'[last'.c]) = Traversal(heap, root[last'.c])]_vars

\* C13: the const operator[] on an absent key throws KeyNotFound, on a present
\* key it throws nothing, and either way size(), the node graph and the values
\* stay as they were.
ReadAbsentFails ==
  [][last'.op = "read" =>
       /\ last'.err = (IF last'.key \in KeysOf(heap, root["a"]) THEN "none" ELSE "KeyNotFound")
       /\ nodeCount' = nodeCount
       /\ root' = root
       /\ heap' = heap]_vars

\* C13 witness: a key that a populated container does not hold was read
ReadAbsentWitness ==
  /\ last.op = "read" /\ last.err = "KeyNotFound"
  /\ Cardinality(Owned(heap, root["a"])) >= 3

\* C14: write access auto-vivifies.  The non-const operator[] on an absent key
\* makes exactly one new entry, holding the default value, and size() grows by
\* one, after which the const operator[] finds the key; on a present key it
\* changes neither size() nor the tree.
WriteVivifies ==
  [][last'.op = "write" =>
       IF last'.kids = -1
       THEN /\ last'.err = "none"
            /\ nodeCount' = [nodeCount EXCEPT !["a"] = @ + 1]
            /\ KeysOf(heap', root'["a"]) = KeysOf(heap, root["a"]) \cup {last'.key}
            /\ Cardinality(Owned(heap', root'["a"])) = Cardinality(Owned(heap, root["a"])) + 1
            /\ opIndexConst(heap', root'["a"], last'.key) = [err |-> "none", val |-> DefaultValue]
       ELSE /\ last'.err = "none"
            /\ nodeCount' = nodeCount
            /\ root' = root
            /\ heap' = heap]_vars

\* the reference key-to-value map (-1: no entry) after the call that l records
RefMapStep(m, l) ==
  IF l.op = "push" THEN [m EXCEPT ![l.key] = l.val]
  ELSE IF l.op = "drop" THEN [m EXCEPT ![l.key] = -1]
  ELSE IF l.op = "clear" THEN [k \in Keys |-> -1]
  ELSE m

\* count and find answer for every key as the reference map m has it
LookupAgrees(h, r, m) ==
  \A k \in Keys :
    IF m[k] # -1
    THEN /\ count(h, r, k) = 1
         /\ find(h, r, k) # end
         /\ h[find(h, r, k)].key = k
         /\ h[find(h, r, k)].val = m[k]
    ELSE /\ count(h, r, k) = 0
         /\ find(h, r, k) = end

\* C15: lookup agrees with a reference map.  Every call takes what count and
\* find answer from what they answered before it to that with the call applied
\* as on a key-to-value map: push(k, v) sets k to v, drop(k) removes k, and no
\* other key changes; count(k) is 1 and find(k) designates the entry of k with
\* the map's value when the map has k, and count(k) is 0 and find(k) is end()
\* when it has not.
LookupRefinesMap ==
  [][LookupAgrees(heap', root'["a"], RefMapStep(MapOf(heap, root["a"]), last'))]_vars

\* C15 witness: a node with two children was erased, and count and find answer
\* for three keys left and not for the erased one
LookupWitness ==
  /\ last.op = "drop" /\ last.kids = 2
  /\ Cardinality({k \in Keys : count(heap, root["a"], k) = 1}) = 3
  /\ find(heap, root["a"], last.key) = end

\* C16: re-inserting an existing key only replaces the value.  On any
\* container, a push of a present key leaves size() and every node's children,
\* parent link and stored height as they were and changes only the value held
\* for the key; a push of an absent key makes size() one more.
ReinsertOnlyValue ==
  [][last'.op = "push" =>
       IF last'.kids >= 0
       THEN /\ nodeCount' = nodeCount
            /\ root' = root
            /\ heap' = [heap EXCEPT ![findNode(heap, root[last'.c], last'.key)].val = last'.val]
       ELSE nodeCount' = [nodeCount EXCEPT ![last'.c] = @ + 1]]_vars

\* the height of the subtree of n, counted on the tree itself
RECURSIVE TrueHeight(_, _)
TrueHeight(h, n) ==
  IF n = NULL THEN 0 ELSE 1 + Max(TrueHeight(h, h[n].left), TrueHeight(h, h[n].right))

\* the node of the tree of r whose left or right link holds n, NULL for the root
holder(h, r, n) ==
  IF \E m \in Owned(h, r) : h[m].left = n \/ h[m].right = n
  THEN CHOOSE m \in Owned(h, r) : h[m].left = n \/ h[m].right = n
  ELSE NULL

\* C17: a copy satisfies the container invariants.  Right after a copy
\* construction or a copy assignment every node of the copy has the stored
\* height 1 + max of its children's and the parent link of the node that
\* holds it, and on every container the heights of the two subtrees of a
\* node, counted on the tree, differ by at most 1 whatever is pushed and
\* dropped afterwards.
CopyKeepsInvariants ==
  /\ (last.op \in {"copyConstruct", "copyAssign"} /\ last.c # last.src) =>
       \A n \in Owned(heap, root[last.c]) :
         /\ heap[n].height = 1 + Max(height(heap, heap[n].left), height(heap, heap[n].right))
         /\ heap[n].parent = holder(heap, root[last.c], n)
  /\ \A c \in Containers : \A n \in Owned(heap, root[c]) :
       TrueHeight(heap, heap[n].left) - TrueHeight(heap, heap[n].right) \in -1..1

\* what rotateRight(y) is to leave, s being what it returned on the heap h,
\* where x was y->left
RightRotated(h, y, x, s) ==
  /\ s.r = x
  /\ s.h[x].right = y /\ s.h[y].parent = x
  /\ s.h[y].left = h[x].right
  /\ h[x].right # NULL => s.h[h[x].right].parent = y
  /\ s.h[y].height = 1 + Max(height(s.h, s.h[y].left), height(s.h, s.h[y].right))
  /\ s.h[x].height = 1 + Max(height(s.h, s.h[x].left), height(s.h, s.h[x].right))
  /\ s.h[x].parent = lock(h, h[y].parent)

\* what rotateLeft(x) is to leave, where y was x->right
LeftRotated(h, x, y, s) ==
  /\ s.r = y
  /\ s.h[y].left = x /\ s.h[x].parent = y
  /\ s.h[x].right = h[y].left
  /\ h[y].left # NULL => s.h[h[y].left].parent = x
  /\ s.h[x].height = 1 + Max(height(s.h, s.h[x].left), height(s.h, s.h[x].right))
  /\ s.h[y].height = 1 + Max(height(s.h, s.h[y].left), height(s.h, s.h[y].right))
  /\ s.h[y].parent = lock(h, h[x].parent)

\* C18: rotation re-parents the promoted node.  rotateRight(Y), at any node Y
\* of a reachable tree that has a left child X, returns X with Y as its right
\* child and X as Y's parent, the subtree moved from X.right to Y.left with
\* the parent Y, the heights of Y and X recomputed, and X with the parent Y
\* had before; rotateLeft likewise.
RotationReparents ==
  \A n \in Owned(heap, root["a"]) :
    /\ heap[n].left # NULL => RightRotated(heap, n, heap[n].left, rotateRight(heap, n))
    /\ heap[n].right # NULL => LeftRotated(heap, n, heap[n].right, rotateLeft(heap, n))

\* the only child of node n
onlyChild(h, n) == IF h[n].left # NULL THEN h[n].left ELSE h[n].right

\* the key of node n, 0 for no node
keyAt(h, n) == IF n = NULL THEN 0 ELSE h[n].key

\* C19: erase re-parents the replacement child.  When drop removes a node with
\* exactly one child, the parent link of that child designates afterwards the
\* node that held the removed one, and is absent if the removed node was the
\* root.
EraseReparents ==
  [][(last'.op = "drop" /\ last'.kids = 1) =>
       keyAt(heap', heap'[findNode(heap', root'["a"],
                                   keyAt(heap, onlyChild(heap, findNode(heap, root["a"], last'.key))))].parent)
         = keyAt(heap, holder(heap, root["a"], findNode(heap, root["a"], last'.key)))]_vars

====
